---- MODULE Spec2Model ----
(***************************************************************************)
(* A model of unpacker/cpp/module.cc: the NaCl instance that receives      *)
(* messages from JavaScript (NaclArchiveInstance::HandleMessage), keeps    *)
(* the map volumes_ from file system id to Volume, and posts every         *)
(* outbound message through ModuleJavaScriptMessageSender::SafePostMessage.*)
(*                                                                         *)
(* Threads: the dispatch thread (Main), on which the browser calls         *)
(* HandleMessage, and one worker thread per Volume.  The Volume class      *)
(* (volume.h / volume.cc) is not part of the modelled source file; what a  *)
(* Volume does with the calls it receives is modelled from the design      *)
(* document and is marked as such in the definitions below.                *)
(*                                                                         *)
(* PP_DCHECK aborts the process in a debug build and is compiled out in a  *)
(* release build; the build is chosen in Init (dcheck).  Where the release *)
(* build then dereferences volumes_.end(), the behaviour is undefined and  *)
(* is modelled as a choice between a crash and a call on a garbage pointer.*)
(***************************************************************************)
EXTENDS Integers, Sequences, FiniteSets, TLC

\* ---------------------------------------------------------------- bounds
MaxMessages == 4     \* inbound messages handled over a run

\* ------------------------------------------------------------ vocabulary
FsIds == {"a", "b"}              \* file_system_id values
RequestIds == 1..MaxMessages     \* request_id values
NoRequest == 0                   \* a request_id no request carries
OpenIds == {"o1"}                \* open_request_id values
Lengths == {0, 1}                \* kLength values of READ_FILE
NoOpen == "-"

Main == 0                        \* the thread that runs HandleMessage
NoVolume == 0                    \* volumes_.find(id) == volumes_.end()
NoThread == -1                   \* post_message_lock_ is free
GarbageVolume == -2              \* what volumes_.end()->second points to
Volumes == 1..MaxMessages        \* Volume objects, in order of construction
Threads == {Main} \cup Volumes   \* a Volume's worker is named as the Volume

VARIABLES
  dcheck,              \* TRUE: debug build, PP_DCHECK aborts
  volumes_,            \* file system id -> Volume (NoVolume: no entry)
  live,                \* Volume objects constructed and not deleted
  created,             \* number of Volume objects constructed
  volume_fs,           \* the file_system_id a Volume was constructed with
  metadataRuns,        \* Volume -> number of Volume::ReadMetadata calls
  queue,               \* Volume -> work posted to its worker, oldest first
  job,                 \* Volume -> the work its worker is running
  pc,                  \* thread -> where it is
  msg,                 \* thread -> the message it has posted last
  frame,               \* locals of the handler Main is suspended in
  post_message_lock_,  \* the thread holding the lock, or NoThread
  chunks,              \* chunk requests the host has not answered yet
  crashed,             \* the process has terminated abnormally
  last,                \* the inbound message handled last, and what it did
  handled,             \* number of inbound messages handled
  readCalls            \* Volume -> READ_FILE calls forwarded to it and not
                       \* answered yet, oldest first

vars == <<dcheck, volumes_, live, created, volume_fs, metadataRuns, queue, job,
          pc, msg, frame, post_message_lock_, chunks, crashed, last, handled,
          readCalls>>

NoJob == [op |-> "none", rid |-> NoRequest, open |-> NoOpen, chunk |-> "none"]
NoMsg == [kind |-> "none", fs |-> "-", rid |-> NoRequest, op |-> "none", open |-> NoOpen]
NoFrame == [fn |-> "none", fs |-> "-", rid |-> NoRequest, volume |-> NoVolume]
NoLast == [op |-> "none", fs |-> "-", present |-> FALSE, target |-> NoVolume,
           len |-> 1, failed |-> "none"]

Init ==
  /\ dcheck \in BOOLEAN
  /\ volumes_ = [f \in FsIds |-> NoVolume]
  /\ live = {}
  /\ created = 0
  /\ volume_fs = [v \in Volumes |-> "-"]
  /\ metadataRuns = [v \in Volumes |-> 0]
  /\ queue = [v \in Volumes |-> <<>>]
  /\ job = [v \in Volumes |-> NoJob]
  /\ pc = [t \in Threads |-> IF t = Main THEN "idle" ELSE "none"]
  /\ msg = [t \in Threads |-> NoMsg]
  /\ frame = NoFrame
  /\ post_message_lock_ = NoThread
  /\ chunks = {}
  /\ crashed = FALSE
  /\ last = NoLast
  /\ handled = 0
  /\ readCalls = [v \in Volumes |-> <<>>]

\* ------------------------------------------------------- history record
\* What the handler of one inbound message did: the Volume it called
\* (target), whether the id was in volumes_ when it started (present), and
\* the assertion that stopped it (failed): "shape" for a PP_DCHECK on the
\* type of a field, "contract" for one on volumes_ or on the length,
\* "operation" for PP_NOTREACHED, "none" if no assertion failed.
HandledWith(op, fs, target, len, failed) ==
  /\ handled' = handled + 1
  /\ last' = [op |-> op, fs |-> fs, present |-> volumes_[fs] /= NoVolume,
           target |-> target, len |-> len, failed |-> failed]

Handled(op, fs, target, len) ==
  HandledWith(op, fs, target, len, "none")

\* ------------------------------------------------- PP_DCHECK and end()
\* A failed PP_DCHECK in a debug build: the process aborts.
AbortAt(op, fs, len, failed) ==
  /\ crashed' = TRUE
  /\ HandledWith(op, fs, NoVolume, len, failed)
  /\ UNCHANGED <<volumes_, live, created, volume_fs, metadataRuns, queue, job,
                 pc, msg, frame, readCalls>>

\* PP_DCHECK on volumes_ (the id present or absent) or on the length.
Abort(op, fs, len) == AbortAt(op, fs, len, "contract")

\* PP_DCHECK on the type of a field of the message (is_string, is_int,
\* is_array_buffer, is_dictionary).
AbortMalformed(op, fs, len) == AbortAt(op, fs, len, "shape")

\* volumes_.end()->second used as a Volume* in a release build: undefined
\* behaviour.  Either the process crashes, or the call (or delete) runs on
\* the garbage pointer and the handler returns.
UndefinedCall(op, fs, len) ==
  \E crash \in BOOLEAN :
    /\ crashed' = crash
    /\ Handled(op, fs, IF crash THEN NoVolume ELSE GarbageVolume, len)
    /\ UNCHANGED <<volumes_, live, created, volume_fs, metadataRuns, queue,
                   job, pc, msg, frame, readCalls>>

\* ------------------------------------------------------ Volume (calls)
\* Volume::ReadMetadata / OpenFile / CloseFile / ReadFile hand the request
\* to the Volume's worker and return.
PostWork(v, j) ==
  queue' = [queue EXCEPT ![v] = Append(@, j)]

VolumeReadMetadata(v, rid) ==
  /\ PostWork(v, [NoJob EXCEPT !.op = "meta", !.rid = rid])
  /\ metadataRuns' = [metadataRuns EXCEPT ![v] = @ + 1]

VolumeOpenFile(v, rid) ==
  PostWork(v, [NoJob EXCEPT !.op = "open", !.rid = rid])

VolumeCloseFile(v, rid, open) ==
  PostWork(v, [NoJob EXCEPT !.op = "close", !.rid = rid, !.open = open])

VolumeReadFile(v, rid, open) ==
  PostWork(v, [NoJob EXCEPT !.op = "read", !.rid = rid, !.open = open])

\* Volume::ReadChunkDone / ReadChunkError: the response resumes the worker
\* if it is waiting for a chunk under that request id, and is ignored
\* otherwise.  After a chunk error the worker can only report an error.
VolumeReadChunk(v, rid, result) ==
  IF pc[v] = "wait" /\ job[v].rid = rid
  THEN /\ pc' = [pc EXCEPT ![v] = "acquire"]
       /\ job' = [job EXCEPT ![v].chunk = result]
  ELSE UNCHANGED <<pc, job>>

\* Volume::~Volume waits for the worker to leave the job it is running; a
\* worker waiting for a chunk is cancelled.
VolumeDestructible(v) == pc[v] \in {"none", "idle", "wait"}

\* ------------------------------------------------------------ handlers
\* ReadMetadata that, for an id already in volumes_, runs ReadMetadata on the
\* registered Volume again instead of constructing a new one.
ReadMetadata_Reused(fs, rid, shape) ==
  IF volumes_[fs] /= NoVolume
  THEN IF dcheck
       THEN Abort("READ_METADATA", fs, 1)
       ELSE /\ VolumeReadMetadata(volumes_[fs], rid)
            /\ Handled("READ_METADATA", fs, volumes_[fs], 1)
            /\ UNCHANGED <<volumes_, live, created, volume_fs, job, pc, msg,
                           frame, crashed, readCalls>>
  ELSE /\ LET volume == created + 1 IN
          /\ created' = volume
          /\ live' = live \cup {volume}
          /\ volume_fs' = [volume_fs EXCEPT ![volume] = fs]
          /\ \E init \in BOOLEAN :
               IF ~init
               THEN /\ pc' = [pc EXCEPT ![Main] = "acquire"]
                    /\ frame' = [fn |-> "ReadMetadata", fs |-> fs,
                                 rid |-> rid, volume |-> volume]
                    /\ Handled("READ_METADATA", fs, NoVolume, 1)
                    /\ UNCHANGED <<volumes_, metadataRuns, queue, crashed>>
               ELSE /\ pc' = [pc EXCEPT ![volume] = "idle"]
                    /\ volumes_' = [volumes_ EXCEPT ![fs] = volume]
                    /\ IF dcheck /\ ~shape
                       THEN \* PP_DCHECK(kArchiveSize is_string), line 194
                            /\ crashed' = TRUE
                            /\ HandledWith("READ_METADATA", fs, NoVolume, 1,
                                           "shape")
                            /\ UNCHANGED <<metadataRuns, queue>>
                       ELSE /\ VolumeReadMetadata(volume, rid)
                            /\ Handled("READ_METADATA", fs, volume, 1)
                            /\ UNCHANGED crashed
                    /\ UNCHANGED frame
          /\ UNCHANGED <<job, msg, readCalls>>

ReadMetadata(fs, rid, shape) ==
  IF dcheck /\ volumes_[fs] /= NoVolume
  THEN Abort("READ_METADATA", fs, 1)
  ELSE /\ LET volume == created + 1 IN
          /\ created' = volume
          /\ live' = live \cup {volume}
          /\ volume_fs' = [volume_fs EXCEPT ![volume] = fs]
          /\ \E init \in BOOLEAN :
               IF ~init
               THEN \* SendFileSystemError; delete volume; return
                    /\ pc' = [pc EXCEPT ![Main] = "acquire"]
                    /\ frame' = [fn |-> "ReadMetadata", fs |-> fs,
                                 rid |-> rid, volume |-> volume]
                    /\ Handled("READ_METADATA", fs, NoVolume, 1)
                    /\ UNCHANGED <<volumes_, metadataRuns, queue, crashed>>
               ELSE /\ pc' = [pc EXCEPT ![volume] = "idle"]
                    /\ volumes_' = [volumes_ EXCEPT ![fs] = volume]
                    /\ IF dcheck /\ ~shape
                       THEN \* PP_DCHECK(kArchiveSize is_string), line 194
                            /\ crashed' = TRUE
                            /\ HandledWith("READ_METADATA", fs, NoVolume, 1,
                                           "shape")
                            /\ UNCHANGED <<metadataRuns, queue>>
                       ELSE /\ VolumeReadMetadata(volume, rid)
                            /\ Handled("READ_METADATA", fs, volume, 1)
                            /\ UNCHANGED crashed
                    /\ UNCHANGED frame
          /\ UNCHANGED <<job, msg, readCalls>>

\* ReadChunkDone without `if (it == volumes_.end()) return;`.
ReadChunkDone_Unchecked(fs, rid, shape) ==
  LET it == volumes_[fs] IN
  IF dcheck /\ ~shape
  THEN AbortMalformed("READ_CHUNK_DONE", fs, 1)
  ELSE IF it = NoVolume
  THEN UndefinedCall("READ_CHUNK_DONE", fs, 1)
  ELSE /\ VolumeReadChunk(it, rid, "none")
       /\ Handled("READ_CHUNK_DONE", fs, it, 1)
       /\ UNCHANGED <<volumes_, live, created, volume_fs, metadataRuns, queue,
                      msg, frame, crashed, readCalls>>

ReadChunkDone(fs, rid, shape) ==
  LET it == volumes_[fs] IN
  IF dcheck /\ ~shape
  THEN \* PP_DCHECK(kChunkBuffer is_array_buffer), (kOffset is_string)
       AbortMalformed("READ_CHUNK_DONE", fs, 1)
  ELSE /\ IF it = NoVolume
          THEN UNCHANGED <<pc, job>>
          ELSE VolumeReadChunk(it, rid, "none")
       /\ Handled("READ_CHUNK_DONE", fs, it, 1)
       /\ UNCHANGED <<volumes_, live, created, volume_fs, metadataRuns, queue,
                      msg, frame, crashed, readCalls>>

\* ReadChunkError that also erases the id from volumes_.
ReadChunkError_Erasing(fs, rid) ==
  LET it == volumes_[fs] IN
  /\ IF it = NoVolume
     THEN UNCHANGED <<pc, job>>
     ELSE VolumeReadChunk(it, rid, "error")
  /\ volumes_' = [volumes_ EXCEPT ![fs] = NoVolume]
  /\ Handled("READ_CHUNK_ERROR", fs, it, 1)
  /\ UNCHANGED <<live, created, volume_fs, metadataRuns, queue, msg,
                 frame, crashed, readCalls>>

ReadChunkError(fs, rid) ==
  LET it == volumes_[fs] IN
  /\ IF it = NoVolume
     THEN UNCHANGED <<pc, job>>
     ELSE VolumeReadChunk(it, rid, "error")
  /\ Handled("READ_CHUNK_ERROR", fs, it, 1)
  /\ UNCHANGED <<volumes_, live, created, volume_fs, metadataRuns, queue, msg,
                 frame, crashed, readCalls>>

OpenFile(fs, rid, shape) ==
  LET it == volumes_[fs] IN
  IF dcheck /\ ~shape
  THEN \* PP_DCHECK(kFilePath is_string), (kArchiveSize is_string)
       AbortMalformed("OPEN_FILE", fs, 1)
  ELSE IF it = NoVolume
  THEN IF dcheck THEN Abort("OPEN_FILE", fs, 1)
                 ELSE UndefinedCall("OPEN_FILE", fs, 1)
  ELSE /\ VolumeOpenFile(it, rid)
       /\ Handled("OPEN_FILE", fs, it, 1)
       /\ UNCHANGED <<volumes_, live, created, volume_fs, metadataRuns, job,
                      pc, msg, frame, crashed, readCalls>>

CloseFile(fs, rid, open, shape) ==
  LET it == volumes_[fs] IN
  IF dcheck /\ ~shape
  THEN \* PP_DCHECK(kOpenRequestId is_string)
       AbortMalformed("CLOSE_FILE", fs, 1)
  ELSE IF it = NoVolume
  THEN IF dcheck THEN Abort("CLOSE_FILE", fs, 1)
                 ELSE UndefinedCall("CLOSE_FILE", fs, 1)
  ELSE /\ VolumeCloseFile(it, rid, open)
       /\ Handled("CLOSE_FILE", fs, it, 1)
       /\ UNCHANGED <<volumes_, live, created, volume_fs, metadataRuns, job,
                      pc, msg, frame, crashed, readCalls>>

ReadFile(fs, rid, open, len, shape) ==
  LET it == volumes_[fs] IN
  IF dcheck /\ ~shape
  THEN \* PP_DCHECK(kOpenRequestId is_string), (kOffset is_string),
       \* (kLength is_int)
       AbortMalformed("READ_FILE", fs, len)
  ELSE IF dcheck /\ ~(len > 0)
  THEN Abort("READ_FILE", fs, len)
  ELSE IF it = NoVolume
  THEN IF dcheck THEN Abort("READ_FILE", fs, len)
                 ELSE UndefinedCall("READ_FILE", fs, len)
  ELSE /\ VolumeReadFile(it, rid, open)
       /\ readCalls' = [readCalls EXCEPT ![it] =
                          Append(@, [open |-> open, rid |-> rid])]
       /\ Handled("READ_FILE", fs, it, len)
       /\ UNCHANGED <<volumes_, live, created, volume_fs, metadataRuns, job,
                      pc, msg, frame, crashed>>

\* case request::CLOSE_VOLUME, up to and including `delete it->second`.
CloseVolume(fs) ==
  LET it == volumes_[fs] IN
  IF it = NoVolume
  THEN IF dcheck THEN Abort("CLOSE_VOLUME", fs, 1)
                 ELSE UndefinedCall("CLOSE_VOLUME", fs, 1)
  ELSE /\ VolumeDestructible(it)
       /\ live' = live \ {it}
       /\ pc' = [pc EXCEPT ![it] = "dead", ![Main] = "erase"]
       /\ queue' = [queue EXCEPT ![it] = <<>>]
       /\ job' = [job EXCEPT ![it] = NoJob]
       /\ msg' = [msg EXCEPT ![it] = NoMsg]
       /\ readCalls' = [readCalls EXCEPT ![it] = <<>>]
       /\ frame' = [fn |-> "CloseVolume", fs |-> fs, rid |-> NoRequest,
                    volume |-> it]
       /\ Handled("CLOSE_VOLUME", fs, it, 1)
       /\ UNCHANGED <<volumes_, created, volume_fs, metadataRuns, crashed>>

\* case request::CLOSE_VOLUME with `volumes_.clear()` for the erase.
EraseVolume_Clear ==
  /\ pc[Main] = "erase"
  /\ volumes_' = [fs \in FsIds |-> NoVolume]
  /\ pc' = [pc EXCEPT ![Main] = "idle"]
  /\ frame' = NoFrame
  /\ UNCHANGED <<dcheck, live, created, volume_fs, metadataRuns, queue, job,
                 msg, post_message_lock_, chunks, crashed, last, handled, readCalls>>

\* case request::CLOSE_VOLUME without `volumes_.erase(file_system_id)`.
EraseVolume_Skipped ==
  /\ pc[Main] = "erase"
  /\ pc' = [pc EXCEPT ![Main] = "idle"]
  /\ frame' = NoFrame
  /\ UNCHANGED <<dcheck, volumes_, live, created, volume_fs, metadataRuns,
                 queue, job, msg, post_message_lock_, chunks, crashed, last,
                 handled, readCalls>>

\* case request::CLOSE_VOLUME: `volumes_.erase(file_system_id); break;`
EraseVolume ==
  /\ pc[Main] = "erase"
  /\ volumes_' = [volumes_ EXCEPT ![frame.fs] = NoVolume]
  /\ pc' = [pc EXCEPT ![Main] = "idle"]
  /\ frame' = NoFrame
  /\ UNCHANGED <<dcheck, live, created, volume_fs, metadataRuns, queue, job,
                 msg, post_message_lock_, chunks, crashed, last, handled, readCalls>>

\* A chunk response the host can send: the answer to a chunk request it
\* holds, or one for which it holds no request (issuer NoVolume).
ChunkResponses ==
  chunks \cup [fs : FsIds, rid : {NoRequest}, issuer : {NoVolume}]

\* JavaScript numbers its requests: each carries a request id of its own.
NextRequestId == handled + 1

\* `default: PP_NOTREACHED();`: an operation that is none of the seven.  A
\* debug build aborts; a release build leaves the switch and returns.
UnknownOperation(fs) ==
  IF dcheck
  THEN AbortAt("UNKNOWN", fs, 1, "operation")
  ELSE /\ Handled("UNKNOWN", fs, NoVolume, 1)
       /\ UNCHANGED <<volumes_, live, created, volume_fs, metadataRuns, queue,
                      job, pc, msg, frame, crashed, readCalls>>

\* NaclArchiveInstance::HandleMessage.  The browser calls it on the main
\* thread, one message at a time.  envelope: the message is a dictionary
\* whose operation is an int and whose ids are strings (lines 109-119);
\* shape: the fields the handler reads have the types it asserts.  A release
\* build asserts nothing and goes on with whatever values it reads.
HandleMessage ==
  /\ pc[Main] = "idle"
  /\ handled < MaxMessages
  /\ \E envelope \in BOOLEAN, shape \in BOOLEAN :
       IF dcheck /\ ~envelope
       THEN /\ \E fs \in FsIds : AbortMalformed("none", fs, 1)
            /\ UNCHANGED chunks
       ELSE \/ /\ \E fs \in FsIds : ReadMetadata(fs, NextRequestId, shape)
               /\ UNCHANGED chunks
            \/ \E c \in ChunkResponses :
                 /\ ReadChunkDone(c.fs, c.rid, shape)
                 /\ chunks' = chunks \ {c}
            \/ \E c \in ChunkResponses :
                 /\ ReadChunkError(c.fs, c.rid)
                 /\ chunks' = chunks \ {c}
            \/ /\ \E fs \in FsIds : OpenFile(fs, NextRequestId, shape)
               /\ UNCHANGED chunks
            \/ /\ \E fs \in FsIds, open \in OpenIds :
                    CloseFile(fs, NextRequestId, open, shape)
               /\ UNCHANGED chunks
            \/ /\ \E fs \in FsIds, open \in OpenIds, len \in Lengths :
                    ReadFile(fs, NextRequestId, open, len, shape)
               /\ UNCHANGED chunks
            \/ /\ \E fs \in FsIds : CloseVolume(fs)
               /\ UNCHANGED chunks
            \/ /\ \E fs \in FsIds : UnknownOperation(fs)
               /\ UNCHANGED chunks
  /\ UNCHANGED <<dcheck, post_message_lock_>>

\* The Volumes volumes_ holds.
RegisteredVolumes == {volumes_[fs] : fs \in FsIds} \ {NoVolume}

\* The order in which a std::map<std::string, ...> is iterated: by key.
FsOrder == <<"a", "b">>

\* The positions in FsOrder of the entries of volumes_ whose Volume the
\* destructor's loop has not deleted yet.
NotDeleted ==
  {i \in 1..Len(FsOrder) : volumes_[FsOrder[i]] \in live}

\* NaclArchiveInstance::~NaclArchiveInstance is entered: the browser destroys
\* the instance on the main thread, between two messages.  With nothing to
\* delete the destructor is already over.
DestroyInstance ==
  /\ pc[Main] = "idle"
  /\ pc' = [pc EXCEPT ![Main] =
              IF NotDeleted = {} THEN "destroyed" ELSE "destructor"]
  /\ UNCHANGED <<dcheck, volumes_, live, created, volume_fs, metadataRuns,
                 queue, job, msg, frame, post_message_lock_, chunks, crashed,
                 last, handled, readCalls>>

\* One pass of the destructor's loop: `delete iterator->second` for the next
\* entry of volumes_, which waits like every delete of a Volume for the
\* worker to leave its job.  After the last entry the destructor ends and
\* the members of the instance (volumes_, the message sender and its lock)
\* are destroyed.
DeleteNextVolume ==
  /\ pc[Main] = "destructor"
  /\ NotDeleted /= {}
  /\ LET i == CHOOSE k \in NotDeleted : \A l \in NotDeleted : k <= l
         v == volumes_[FsOrder[i]]
     IN /\ VolumeDestructible(v)
        /\ live' = live \ {v}
        /\ pc' = [pc EXCEPT ![v] = "dead",
                            ![Main] = IF NotDeleted = {i} THEN "destroyed"
                                      ELSE "destructor"]
        /\ queue' = [queue EXCEPT ![v] = <<>>]
        /\ job' = [job EXCEPT ![v] = NoJob]
        /\ msg' = [msg EXCEPT ![v] = NoMsg]
        /\ readCalls' = [readCalls EXCEPT ![v] = <<>>]
  /\ UNCHANGED <<dcheck, volumes_, created, volume_fs, metadataRuns, frame,
                 post_message_lock_, chunks, crashed, last, handled>>

\* ------------------------------------------------------ Volume (worker)
DoneKind(op) ==
  CASE op = "meta" -> "metadata_done"
    [] op = "open" -> "open_done"
    [] op = "close" -> "close_done"
    [] OTHER -> "read_done"

\* What a worker running job j can send next: a chunk request (not for a
\* close), the reply, or an error; only an error after a chunk error.
WorkerKinds(j) ==
  IF j.chunk = "error" THEN {"error"}
  ELSE {DoneKind(j.op), "error"}
         \cup (IF j.op = "close" THEN {} ELSE {"chunk"})

\* The messages thread t can be about to send: Main the error of the
\* ReadMetadata it is in, a worker the next message of its job.
Outgoing(t) ==
  IF t = Main
  THEN {[kind |-> "error", fs |-> frame.fs, rid |-> frame.rid,
         op |-> "meta", open |-> NoOpen]}
  ELSE {[kind |-> k, fs |-> volume_fs[t], rid |-> job[t].rid,
         op |-> job[t].op, open |-> job[t].open] : k \in WorkerKinds(job[t])}

\* A reply to a READ_FILE: read-done, or the error of a read.
IsReadReply(m) == m.op = "read" /\ m.kind \in {"read_done", "error"}

\* seq without its first element equal to x.
RECURSIVE RemoveFirst(_, _)
RemoveFirst(seq, x) ==
  IF seq = <<>> THEN <<>>
  ELSE IF Head(seq) = x THEN Tail(seq)
  ELSE <<Head(seq)>> \o RemoveFirst(Tail(seq), x)

\* readCalls once thread t has delivered message m.
Answered(t, m) ==
  IF t /= Main /\ IsReadReply(m)
  THEN [readCalls EXCEPT ![t] =
          RemoveFirst(@, [open |-> m.open, rid |-> m.rid])]
  ELSE readCalls

\* A worker that takes the newest work of its queue.
WorkerRun_Newest(v) ==
  /\ pc[v] = "idle"
  /\ v \in live
  /\ queue[v] /= <<>>
  /\ job' = [job EXCEPT ![v] = queue[v][Len(queue[v])]]
  /\ queue' = [queue EXCEPT ![v] = SubSeq(@, 1, Len(@) - 1)]
  /\ pc' = [pc EXCEPT ![v] = "acquire"]
  /\ UNCHANGED <<dcheck, volumes_, live, created, volume_fs, metadataRuns,
                 msg, frame, post_message_lock_, chunks, crashed, last, handled,
                 readCalls>>

\* The worker takes the oldest work of its queue and runs it up to its
\* first outbound message.
WorkerRun(v) ==
  /\ pc[v] = "idle"
  /\ v \in live
  /\ queue[v] /= <<>>
  /\ job' = [job EXCEPT ![v] = Head(queue[v])]
  /\ queue' = [queue EXCEPT ![v] = Tail(@)]
  /\ pc' = [pc EXCEPT ![v] = "acquire"]
  /\ UNCHANGED <<dcheck, volumes_, live, created, volume_fs, metadataRuns,
                 msg, frame, post_message_lock_, chunks, crashed, last, handled,
                 readCalls>>

\* post_message_lock_.Acquire(): blocks until the lock is free.
Acquire(t) ==
  /\ pc[t] = "acquire"
  /\ post_message_lock_ = NoThread
  /\ post_message_lock_' = t
  /\ pc' = [pc EXCEPT ![t] = "post"]
  /\ UNCHANGED <<dcheck, volumes_, live, created, volume_fs, metadataRuns,
                 queue, job, msg, frame, chunks, crashed, last, handled, readCalls>>

\* instance_->PostMessage(message): thread t is inside PostMessage while
\* pc[t] = "post"; JavaScript has the message when the call returns
\* (pc[t] = "release", the message in msg[t]).
PostMessage(t) ==
  /\ pc[t] = "post"
  /\ \E m \in Outgoing(t) :
       /\ msg' = [msg EXCEPT ![t] = m]
       /\ readCalls' = Answered(t, m)
  /\ pc' = [pc EXCEPT ![t] = "release"]
  /\ UNCHANGED <<dcheck, volumes_, live, created, volume_fs, metadataRuns,
                 queue, job, frame, post_message_lock_, chunks, crashed,
                 last, handled>>

\* Where thread t continues when Send* returns: Main in ReadMetadata; a
\* worker that sent a chunk request waits for the response; a worker that
\* sent a reply has finished its job.
Continue(t, m) ==
  IF t = Main THEN "sent" ELSE IF m.kind = "chunk" THEN "wait" ELSE "idle"

\* The chunk requests the host holds once thread t has sent m.
Requested(t, m) ==
  IF t /= Main /\ m.kind = "chunk"
  THEN chunks \cup {[fs |-> m.fs, rid |-> m.rid, issuer |-> t]}
  ELSE chunks

\* post_message_lock_.Release() and the return to the caller of Send*.
Release(t) ==
  /\ pc[t] = "release"
  /\ post_message_lock_ = t
  /\ post_message_lock_' = NoThread
  /\ pc' = [pc EXCEPT ![t] = Continue(t, msg[t])]
  /\ chunks' = Requested(t, msg[t])
  /\ job' = IF t /= Main /\ msg[t].kind /= "chunk"
            THEN [job EXCEPT ![t] = NoJob] ELSE job
  /\ msg' = [msg EXCEPT ![t] = NoMsg]
  /\ UNCHANGED <<dcheck, volumes_, live, created, volume_fs, metadataRuns,
                 queue, frame, crashed, last, handled, readCalls>>

\* ReadMetadata's failure path without `delete volume`.
DeleteFailedVolume_Leaked ==
  /\ pc[Main] = "sent"
  /\ pc' = [pc EXCEPT ![Main] = "idle"]
  /\ frame' = NoFrame
  /\ UNCHANGED <<dcheck, volumes_, live, created, volume_fs, metadataRuns,
                 queue, job, msg, post_message_lock_, chunks, crashed, last,
                 handled, readCalls>>

\* ReadMetadata after SendFileSystemError returned: `delete volume; return;`
DeleteFailedVolume ==
  /\ pc[Main] = "sent"
  /\ live' = live \ {frame.volume}
  /\ pc' = [pc EXCEPT ![Main] = "idle"]
  /\ frame' = NoFrame
  /\ UNCHANGED <<dcheck, volumes_, created, volume_fs, metadataRuns, queue,
                 job, msg, post_message_lock_, chunks, crashed, last, handled,
                 readCalls>>

\* ------------------------------------------------------- specifications
\* SafePostMessage on the message sender of a destroyed instance.  The
\* sender and its lock are members of the instance (message_sender_), which
\* gives every Volume a pointer to the sender; the worker of a Volume the
\* destructor did not delete still calls Send* through that pointer when
\* the instance is gone.  The behaviour is undefined.  Its outcomes: the
\* steps Acquire, PostMessage and Release as before; Acquire and Release
\* that return without effect on the lock (AcquireDestroyed,
\* ReleaseDestroyed); the death of the process (UseDestroyedSender).

\* post_message_lock_.Acquire() on the destroyed lock returns at once and
\* leaves the lock as it is, free or held by another thread.
AcquireDestroyed(t) ==
  /\ pc[Main] = "destroyed"
  /\ pc[t] = "acquire"
  /\ pc' = [pc EXCEPT ![t] = "post"]
  /\ UNCHANGED <<dcheck, volumes_, live, created, volume_fs, metadataRuns,
                 queue, job, msg, frame, post_message_lock_, chunks, crashed,
                 last, handled, readCalls>>

\* post_message_lock_.Release() on the destroyed lock by a thread that does
\* not hold it leaves the lock as it is; Send* returns to its caller.
ReleaseDestroyed(t) ==
  /\ pc[Main] = "destroyed"
  /\ pc[t] = "release"
  /\ post_message_lock_ /= t
  /\ pc' = [pc EXCEPT ![t] = Continue(t, msg[t])]
  /\ chunks' = Requested(t, msg[t])
  /\ job' = IF t /= Main /\ msg[t].kind /= "chunk"
            THEN [job EXCEPT ![t] = NoJob] ELSE job
  /\ msg' = [msg EXCEPT ![t] = NoMsg]
  /\ UNCHANGED <<dcheck, volumes_, live, created, volume_fs, metadataRuns,
                 queue, frame, post_message_lock_, crashed, last, handled,
                 readCalls>>

\* The process dies when a thread is inside SafePostMessage of the
\* destroyed sender.
UseDestroyedSender(t) ==
  /\ pc[Main] = "destroyed"
  /\ pc[t] \in {"acquire", "post", "release"}
  /\ crashed' = TRUE
  /\ UNCHANGED <<dcheck, volumes_, live, created, volume_fs, metadataRuns,
                 queue, job, pc, msg, frame, post_message_lock_, chunks, last,
                 handled, readCalls>>

\* The process runs: it has not aborted or crashed.
Running == ~crashed

\* The dispatcher with every inbound message, and every thread taking the
\* steps of SafePostMessage one at a time.
Next ==
  /\ Running
  /\ \/ HandleMessage
     \/ EraseVolume
     \/ DeleteFailedVolume
     \/ DestroyInstance
     \/ DeleteNextVolume
     \/ \E t \in Threads : UseDestroyedSender(t)
     \/ \E t \in Threads : AcquireDestroyed(t)
     \/ \E t \in Threads : ReleaseDestroyed(t)
     \/ \E t \in Threads : Acquire(t)
     \/ \E t \in Threads : PostMessage(t)
     \/ \E t \in Threads : Release(t)
     \/ \E v \in Volumes : WorkerRun(v)

Spec == Init /\ [][Next]_vars

\* Spec with every thread that is inside SafePostMessage scheduled
\* fairly: a thread that can take its next step of SafePostMessage
\* (module.cc:79-81) eventually takes it, as long as the process runs.
Fairness ==
  \A t \in Threads :
    /\ WF_vars(Running /\ Acquire(t))
    /\ WF_vars(Running /\ PostMessage(t))
    /\ WF_vars(Running /\ (Release(t) \/ ReleaseDestroyed(t)))

SpecFair == Spec /\ Fairness

\* ---------------------------------------------------------------- claims
\* A step in which HandleMessage handled an inbound message.
MessageHandled == handled' /= handled

ChunkOps == {"READ_CHUNK_DONE", "READ_CHUNK_ERROR"}
FileOps == {"OPEN_FILE", "CLOSE_FILE", "READ_FILE"}

\* Main has entered SendFileSystemError for the message handled in this step.
ErrorReported ==
  /\ pc'[Main] = "acquire"
  /\ frame'.fs = last'.fs
  /\ frame'.rid = NextRequestId

\* C1: a READ_CHUNK_DONE or READ_CHUNK_ERROR handled while its file system
\* id is not in volumes_ calls no Volume, sends nothing and changes nothing:
\* the registry, the Volumes, their workers and the sender are as before;
\* and the process goes on unless the message failed an assertion on the
\* types of its fields.
C1_ChunkForUnknownVolumeIgnored ==
  [][(MessageHandled /\ last'.op \in ChunkOps /\ ~last'.present)
       => /\ last'.target = NoVolume
          /\ (last'.failed /= "shape" => ~crashed')
          /\ UNCHANGED <<volumes_, live, created, volume_fs, metadataRuns,
                         queue, job, pc, msg, frame, post_message_lock_,
                         readCalls>>]_vars

\* A chunk response was handled for the id of a Volume that CloseVolume had
\* deleted and erased.
C1_Witness ==
  /\ last.op \in ChunkOps
  /\ ~last.present
  /\ volumes_[last.fs] = NoVolume
  /\ \E v \in Volumes : volume_fs[v] = last.fs /\ pc[v] = "dead"

\* C2 (as claimed): a READ_METADATA for an id already in volumes_ reports an
\* error for its request and leaves everything as it was: the same Volume
\* under the id, no Volume constructed, Volume::ReadMetadata not called.
C2_DuplicateReadMetadataRejected ==
  [][(MessageHandled /\ last'.op = "READ_METADATA" /\ last'.present
        /\ last'.failed /= "shape")
       => /\ ErrorReported
          /\ ~crashed'
          /\ volumes_' = volumes_
          /\ created' = created
          /\ metadataRuns' = metadataRuns]_vars

\* C3 (as claimed): a CLOSE_VOLUME for an id not in volumes_ fails without
\* effect: nothing is deleted, the registry is as before, the process runs on.
C3_CloseUnknownVolumeFails ==
  [][(MessageHandled /\ last'.op = "CLOSE_VOLUME" /\ ~last'.present
        /\ last'.failed /= "shape")
       => /\ ~crashed'
          /\ last'.target = NoVolume
          /\ live' = live
          /\ volumes_' = volumes_]_vars

\* C4 (as claimed): an OPEN_FILE, CLOSE_FILE or READ_FILE for an id not in
\* volumes_ reports an error for its request, calls no Volume, leaves the
\* registry as it was and does not end the process.
C4_FileOpOnUnknownVolumeReported ==
  [][(MessageHandled /\ last'.op \in FileOps /\ ~last'.present
        /\ last'.failed /= "shape")
       => /\ ErrorReported
          /\ ~crashed'
          /\ last'.target = NoVolume
          /\ volumes_' = volumes_]_vars


\* C5 (as claimed): at most one thread is inside instance_->PostMessage at any time,
\* whichever threads (Main, the Volumes' workers) are sending and whatever
\* they send.
C5_OnePostMessageInProgress ==
  Cardinality({t \in Threads : pc[t] = "post"}) <= 1

\* C6: a CLOSE_VOLUME for a registered id deletes the Volume and erases the
\* entry with no inbound message handled in between, and the message handled
\* next finds the id absent.
C6_CloseVolumeAtomic ==
  [][/\ (pc[Main] = "erase" /\ volumes_[frame.fs] /= NoVolume)
          => (~MessageHandled /\ volumes_'[frame.fs] \in {NoVolume, volumes_[frame.fs]})
     /\ (MessageHandled /\ last.op = "CLOSE_VOLUME" /\ last.present)
          => /\ volumes_[last.fs] = NoVolume
             /\ (last'.fs = last.fs => ~last'.present)]_vars

\* The Volume is deleted, its entry is still in volumes_, and a worker of
\* another Volume is running.
C6_Witness ==
  /\ pc[Main] = "erase"
  /\ last.op = "CLOSE_VOLUME"
  /\ last.present
  /\ volumes_[last.fs] /= NoVolume
  /\ volumes_[last.fs] \notin live
  /\ \E v \in live : pc[v] = "wait"

\* C7: Volume::ReadMetadata is called at most once on every Volume object.
C7_ReadMetadataOncePerVolume ==
  \A v \in Volumes : metadataRuns[v] <= 1

\* Two READ_METADATA messages for one id have been handled (release build):
\* two Volume objects, ReadMetadata called once on each.
C7_Witness ==
  \E v, w \in Volumes :
    /\ v /= w
    /\ volume_fs[v] = volume_fs[w]
    /\ v \in live /\ w \in live
    /\ metadataRuns[v] = 1 /\ metadataRuns[w] = 1

\* C8 (as claimed): a READ_FILE for a registered id whose length is not
\* positive reports an error for its request id, is not handed to the Volume,
\* and leaves volumes_ and the Volumes as they were.
C8_NonPositiveLengthReported ==
  [][(MessageHandled /\ last'.op = "READ_FILE" /\ last'.present
        /\ last'.len <= 0 /\ last'.failed /= "shape")
       => /\ ErrorReported
          /\ ~crashed'
          /\ last'.target = NoVolume
          /\ queue' = queue
          /\ volumes_' = volumes_]_vars

\* C9 (as claimed): the response to a chunk request whose issuer has been
\* deleted is handed to no Volume.
C9_StaleChunkResponseDropped ==
  [][\A c \in chunks :
       (/\ c.issuer \notin live
        /\ MessageHandled
        /\ last'.op \in ChunkOps
        /\ last'.fs = c.fs
        /\ chunks' = chunks \ {c})
         => last'.target = NoVolume]_vars

\* The unanswered READ_FILE calls of Volume v on stream open, oldest first.
CallsOf(v, open) ==
  SelectSeq(readCalls[v], LAMBDA c : c.open = open)

\* C10: a read reply (read-done or error) a worker delivers answers the
\* oldest unanswered READ_FILE call of its stream.
C10_ReadRepliesInCallOrder ==
  [][\A v \in Volumes :
       (pc[v] = "post" /\ pc'[v] = "release" /\ IsReadReply(msg'[v]))
         => /\ CallsOf(v, msg'[v].open) /= <<>>
            /\ Head(CallsOf(v, msg'[v].open)).rid = msg'[v].rid]_vars

\* A read reply has been delivered while a later READ_FILE call of the same
\* stream is still unanswered.
C10_Witness ==
  \E v \in Volumes :
    /\ pc[v] = "release"
    /\ IsReadReply(msg[v])
    /\ \E i \in 1..Len(readCalls[v]) :
         /\ readCalls[v][i].open = msg[v].open
         /\ readCalls[v][i].rid > msg[v].rid

\* The READ_METADATA handled last found its id absent and its Volume's
\* Init() failed; Main is still in that handler.
InitFailed ==
  /\ frame.fn = "ReadMetadata"
  /\ last.op = "READ_METADATA"
  /\ ~last.present
  /\ last.target = NoVolume

\* C11: a READ_METADATA for an absent id whose Volume fails Init() posts one
\* error with the message's file system id and request id, deletes the new
\* Volume, leaves volumes_ as it was and never calls Volume::ReadMetadata:
\* the handler goes once through SendFileSystemError (acquire, post, release),
\* then deletes and returns.
C11_InitFailureReportedOnce ==
  [][/\ (MessageHandled /\ last'.op = "READ_METADATA" /\ ~last'.present
          /\ last'.target = NoVolume /\ last'.failed = "none")
          => /\ pc'[Main] = "acquire"
             /\ frame'.fn = "ReadMetadata"
             /\ frame'.fs = last'.fs
             /\ frame'.rid = NextRequestId
             /\ frame'.volume \in live'
             /\ volumes_' = volumes_
             /\ metadataRuns' = metadataRuns
             /\ queue' = queue
             /\ ~crashed'
     /\ InitFailed
          => /\ ~MessageHandled
             /\ volumes_'[frame.fs] = NoVolume
             /\ metadataRuns'[frame.volume] = 0
             /\ queue'[frame.volume] = <<>>
             /\ (pc[Main] = "acquire" => pc'[Main] \in {"acquire", "post"})
             /\ (pc[Main] = "post" /\ pc'[Main] /= "post")
                  => /\ pc'[Main] = "release"
                     /\ msg'[Main].kind = "error"
                     /\ msg'[Main].fs = last.fs
                     /\ msg'[Main].rid = frame.rid
             /\ (pc[Main] = "release" => pc'[Main] \in {"release", "sent"})
             /\ (pc[Main] = "sent" /\ pc'[Main] /= "sent")
                  => /\ pc'[Main] = "idle"
                     /\ frame.volume \notin live'
                     /\ frame' = NoFrame]_vars

\* The error of a failed Init() has been posted, the new Volume is not yet
\* deleted, and the id is absent from volumes_.
C11_Witness ==
  /\ InitFailed
  /\ pc[Main] = "release"
  /\ msg[Main].kind = "error"
  /\ msg[Main].rid = frame.rid
  /\ frame.volume \in live
  /\ volumes_[frame.fs] = NoVolume

\* C12 (as claimed): whenever the dispatcher is between two messages, the
\* entries of volumes_ and the live Volumes correspond one to one: every
\* entry points to a live Volume, every live Volume is the entry of its file
\* system id, a Volume deleted by CLOSE_VOLUME was live, and the destructor
\* deletes the Volumes that are live, each once, and leaves none.
C12_RegistryMatchesLiveVolumes ==
  [][/\ pc[Main] = "idle"
          => /\ \A fs \in FsIds :
                  volumes_[fs] /= NoVolume => volumes_[fs] \in live
             /\ \A v \in live : volumes_[volume_fs[v]] = v
     /\ (MessageHandled /\ last'.op = "CLOSE_VOLUME" /\ last'.present)
          => /\ last'.target \in live
             /\ last'.target \notin live'
     /\ pc[Main] = "destructor"
          => /\ live \ live' \subseteq RegisteredVolumes
             /\ Cardinality(live \ live') <= 1
     /\ (pc[Main] /= "destroyed" /\ pc'[Main] = "destroyed")
          => live' = {}]_vars

\* C13: handling a message for file system id A changes the entry of no
\* other id B and calls nothing on B's Volume, whether the message is served,
\* ignored, answered with an error, or ends the process: entries change and
\* Volumes are deleted only under the id of the message in hand, and the step
\* that handles the message leaves B's Volume, its queue and its worker as
\* they were.
C13_OtherVolumesUntouched ==
  [][/\ \A B \in FsIds : volumes_'[B] /= volumes_[B] => B = last'.fs
     /\ pc[Main] /= "destructor"
          => \A v \in live \ live' : volume_fs[v] = last'.fs
     /\ MessageHandled
          => \A B \in FsIds \ {last'.fs} :
               LET v == volumes_[B] IN
               v /= NoVolume
                 => /\ last'.target /= v
                    /\ queue'[v] = queue[v]
                    /\ job'[v] = job[v]
                    /\ pc'[v] = pc[v]
                    /\ msg'[v] = msg[v]
                    /\ metadataRuns'[v] = metadataRuns[v]
                    /\ readCalls'[v] = readCalls[v]]_vars

\* The message for one id ended in an error (a failed Init(), the error
\* posted) while another id is registered with a Volume that is waiting for
\* a chunk.
C13_Witness ==
  /\ InitFailed
  /\ pc[Main] = "release"
  /\ \E B \in FsIds \ {last.fs} :
       /\ volumes_[B] /= NoVolume
       /\ volumes_[B] \in live
       /\ pc[volumes_[B]] = "wait"

\* The file system ids that have an entry in volumes_.
Registered == {fs \in FsIds : volumes_[fs] /= NoVolume}

\* The same after the step.
RegisteredNext == {fs \in FsIds : volumes_'[fs] /= NoVolume}

\* C14: the set of registered ids changes only in the handling of a
\* READ_METADATA, which adds the message's id, or of a CLOSE_VOLUME, which
\* removes the message's id; OPEN_FILE, CLOSE_FILE, READ_FILE,
\* READ_CHUNK_DONE and READ_CHUNK_ERROR leave volumes_ as it was.
C14_RegistryChangedOnlyByMetadataAndClose ==
  [][/\ RegisteredNext /= Registered
          => \/ /\ last'.op = "READ_METADATA"
                /\ MessageHandled
                /\ RegisteredNext = Registered \cup {last'.fs}
             \/ /\ last'.op = "CLOSE_VOLUME"
                /\ RegisteredNext = Registered \ {last'.fs}
     /\ (MessageHandled /\ last'.op \in FileOps \cup ChunkOps)
          => volumes_' = volumes_]_vars

\* A file operation or chunk response has been handled for a registered id,
\* after one id was added and another added and removed.
C14_Witness ==
  /\ last.op \in FileOps \cup ChunkOps
  /\ last.present
  /\ last.target = volumes_[last.fs]
  /\ last.target /= NoVolume
  /\ \E v \in Volumes : pc[v] = "dead" /\ volumes_[volume_fs[v]] = NoVolume

\* The threads between Acquire and Release of SafePostMessage.
Posting == {t \in Threads : pc[t] \in {"post", "release"}}

\* C15 (as claimed): the lock is held exactly by the thread that is between Acquire and
\* Release, and, with every thread scheduled fairly and the process not
\* aborted, a thread that is inside SafePostMessage (waiting for the lock,
\* posting, or about to release) eventually is outside it again, its message
\* handed over and the lock not held by it.
C15_LockReleasedAfterEveryPost ==
  /\ [](Posting = IF post_message_lock_ = NoThread THEN {}
                  ELSE {post_message_lock_})
  /\ \A t \in Threads :
       (pc[t] \in {"acquire", "post", "release"})
         ~> ((pc[t] \notin {"acquire", "post", "release"}
              /\ msg[t] = NoMsg
              /\ post_message_lock_ /= t) \/ ~Running)

====
